---- MODULE Spec2Model ----
(***************************************************************************)
(* The training driver model_train_validate_test and the inference driver  *)
(* model_load_test of run_Roberta_model.py as a state machine.             *)
(*                                                                         *)
(* One control thread runs the driver; a run is the sequence               *)
(*   StartFresh | StartResume ->                                           *)
(*     (ForNext -> Train -> Validate -> SchedulerStep ->                   *)
(*      NoImprove | Improve -> Break | Continue)* -> done -> Return        *)
(* and runs follow one another, each either fresh or resumed from the      *)
(* checkpoint file best.pth.tar that an earlier run left on disk.          *)
(*                                                                         *)
(* Accuracies are the integers 0..MaxAcc (the fraction acc/MaxAcc);        *)
(* probabilities are integer percents 0..ProbScale.  The passes train()    *)
(* and validate() live outside the repository sources: the model takes     *)
(* their return values as inputs.  The driver branches on the validation   *)
(* accuracy only, which ranges over Accs; the losses and the training      *)
(* accuracy are only appended to the history lists, and are represented    *)
(* by the number of the epoch that produced them, so that every list       *)
(* entry can be told from every other.                                     *)
(***************************************************************************)
EXTENDS Integers, Sequences, FiniteSets, TLC

\* ------------------------------------------------------------------ bounds
MaxEpochs   == 3      \* largest value of the argument epochs
MaxPatience == 2      \* largest value of the argument patience
MaxAcc      == 1      \* validation accuracy is one of 0/MaxAcc .. MaxAcc/MaxAcc
MaxRows     == 2      \* most rows of a test set in the prediction export
ProbScale   == 100    \* probabilities are integer percents (1.0 = 100)

Accs == 0..MaxAcc

\* class-1 probabilities a test pass may report, as percents
ProbValues == {20, 50, 51, 90}

RECURSIVE SeqsUpTo(_, _)
SeqsUpTo(S, n) ==
  IF n = 0 THEN {<<>>}
  ELSE LET shorter == SeqsUpTo(S, n - 1)
       IN  shorter \cup {Append(s, x) : s \in {t \in shorter : Len(t) = n - 1}, x \in S}

\* outputs of the test pass inside the training loop
TestOutcomes == {<<50>>, <<90, 20>>}
\* outputs of a test pass in the prediction-export specification
\* (and the four-row example 0.9, 0.2, 0.5, 0.51)
ProbRows == SeqsUpTo(ProbValues, MaxRows) \cup {<<90, 20, 50, 51>>}

VARIABLES
  pc,                \* position of the control thread
  epochs, patience, if_save_model, checkpoint,    \* arguments (checkpoint: <<>> is None)
  best_score, start_epoch, epoch,
  epochs_count, train_losses, train_accuracies, valid_losses, valid_accuracies,
  train_accuracy,    \* the name line 111 binds
  epoch_loss, epoch_accuracy,
  patience_counter,
  model, optimizer,  \* parameter / optimizer state: number of training passes applied
  sched_steps, sched_metric,   \* scheduler.step calls of this run, last metric passed
  disk,              \* target_dir/best.pth.tar: <<>> or <<record>>
  all_prob,          \* probabilities returned by the test pass (a local of both drivers)
  pred_file,         \* target_dir/test_prediction.csv: sequence of rows
  load_pred,         \* test_prediction_dir/test_prediction_name written by model_load_test
  \* history variables (not program state)
  steps,             \* steps taken in the current epoch, in order
  run_accs,          \* validation accuracy of every epoch this run has executed
  disk_saver,        \* the saving run's loop state when it wrote the checkpoint
  saved_now,         \* the current epoch wrote the checkpoint
  n_saves,           \* checkpoints written by this run
  n_test,            \* test passes of this run
  n_epochs,          \* epochs this run has started
  stopped            \* the loop was left by break

vars == <<pc, epochs, patience, if_save_model, checkpoint, best_score, start_epoch, epoch,
          epochs_count, train_losses, train_accuracies, valid_losses, valid_accuracies,
          train_accuracy, epoch_loss, epoch_accuracy, patience_counter, model, optimizer,
          sched_steps, sched_metric, disk, all_prob, pred_file, load_pred,
          steps, run_accs, disk_saver, saved_now, n_saves, n_test,
          n_epochs, stopped>>

argVars   == <<epochs, patience, if_save_model, checkpoint>>
listVars  == <<epochs_count, train_losses, train_accuracies, valid_losses, valid_accuracies>>
histVars  == <<run_accs, saved_now, n_saves, n_test, n_epochs, stopped>>
fileVars  == <<disk, disk_saver, pred_file>>

\* ------------------------------------------------------------- pure helpers
valid_aucs == <<>>

\* the dictionary torch.save writes
CheckpointRecord(e, m, o, b, ec, tl, ta, vl, va) ==
  [epoch |-> e, model |-> m, optimizer |-> o, best_score |-> b,
   epochs_count |-> ec, train_losses |-> tl, train_accuracy |-> ta,
   valid_losses |-> vl, valid_accuracy |-> va, valid_auc |-> valid_aucs]

\* os.path.join(target_dir, "best.pth.tar") can be loaded
CheckpointFound(d) == d # <<>>

\* train(): the loss and accuracy of a training pass for the given epoch
TrainOutcomes(e) == {[loss |-> e, accuracy |-> e]}

\* validate(): the loss and accuracy of a validation pass
ValidOutcomes(e) == {[loss |-> e, accuracy |-> a] : a \in Accs}

\* one row of the prediction table: prob_0 = 1 - prob_1, the decision
PredictionRowTieZero(p1) ==
  LET p0 == ProbScale - p1
  IN  [prob_0 |-> p0, prob_1 |-> p1, prediction |-> IF p0 >= p1 THEN 0 ELSE 1]

PredictionRow(p1) ==
  LET p0 == ProbScale - p1
  IN  [prob_0 |-> p0, prob_1 |-> p1, prediction |-> IF p0 > p1 THEN 0 ELSE 1]

\* the table written by to_csv
TestPrediction(probs) == [i \in 1..Len(probs) |-> PredictionRow(probs[i])]

\* line 140: the metric handed to scheduler.step
SchedulerMetricLoss(loss, acc) == loss

SchedulerMetric(loss, acc) == acc

\* line 149: the checkpoint is to be written
SaveAlways(flag) == TRUE

SaveWanted(flag) == flag

\* line 144: the epoch does not count against patience
ImprovesStrictly(acc, best) == acc > best

ImprovesAlways(acc, best) == TRUE

Improves(acc, best) == ~(acc < best)

\* line 148: the counter after an epoch that reaches the best score
KeepCounter(c) == c

ResetCounter(c) == 0

\* line 174: the loop is left by break
StopNowOffByOne(counter, limit) == counter > limit

StopNow(counter, limit) == counter >= limit

\* line 104: the first epoch of a resumed run
ResumeEpochSame(ck) == ck.epoch

ResumeEpoch(ck) == ck.epoch + 1

\* line 123: range(start_epoch, epochs + 1) has a next element after cursor e
RangeHasNextOneMore(e, last) == e + 1 <= last + 1

RangeHasNext(e, last) == e + 1 <= last

\* ------------------------------------------------------------------- Init
Init ==
  /\ pc = "idle"
  /\ epochs = 0 /\ patience = 0 /\ if_save_model = FALSE /\ checkpoint = <<>>
  /\ best_score = 0 /\ start_epoch = 1 /\ epoch = 0
  /\ epochs_count = <<>> /\ train_losses = <<>> /\ train_accuracies = <<>>
  /\ valid_losses = <<>> /\ valid_accuracies = <<>> /\ train_accuracy = <<>>
  /\ epoch_loss = 0 /\ epoch_accuracy = 0
  /\ patience_counter = 0
  /\ model = 0 /\ optimizer = 0
  /\ sched_steps = 0 /\ sched_metric = -1
  /\ disk = <<>> /\ all_prob = <<>> /\ pred_file = <<>> /\ load_pred = <<>>
  /\ steps = <<>> /\ run_accs = <<>>
  /\ disk_saver = <<>>
  /\ saved_now = FALSE /\ n_saves = 0 /\ n_test = 0 /\ n_epochs = 0 /\ stopped = FALSE

\* ------------------------------------------------- model_train_validate_test
\* lines 40-122 of a call without a checkpoint
StartFresh ==
  /\ pc = "idle"
  /\ epochs' \in 0..MaxEpochs
  /\ patience' \in 0..MaxPatience
  /\ if_save_model' \in BOOLEAN
  /\ checkpoint' = <<>>
  /\ model' = 0 /\ optimizer' = 0
  /\ sched_steps' = 0 /\ sched_metric' = -1
  /\ best_score' = 0
  /\ start_epoch' = 1
  /\ epochs_count' = <<>> /\ train_losses' = <<>> /\ train_accuracies' = <<>>
  /\ valid_losses' = <<>> /\ valid_accuracies' = <<>>
  /\ train_accuracy' = <<>>
  \* line 116: the baseline validation pass; its loss and accuracy are only printed
  /\ \E o \in ValidOutcomes(0) : epoch_loss' = 0 /\ epoch_accuracy' = 0
  /\ patience_counter' = 0
  /\ epoch' = 0                  \* the range iterator stands before start_epoch
  /\ pc' = "for"
  /\ steps' = <<>> /\ run_accs' = <<>>
  /\ saved_now' = FALSE /\ n_saves' = 0 /\ n_test' = 0 /\ n_epochs' = 0 /\ stopped' = FALSE
  /\ UNCHANGED <<fileVars, load_pred, all_prob>>

\* lines 40-122 of a call with checkpoint = the file on disk
StartResume ==
  /\ pc = "idle"
  /\ CheckpointFound(disk)
  /\ epochs' \in 0..MaxEpochs
  /\ patience' \in 0..MaxPatience
  /\ if_save_model' \in BOOLEAN
  /\ LET ck == disk[1] IN
       /\ checkpoint' = <<ck>>                         \* line 103
       /\ start_epoch' = ResumeEpoch(ck)               \* line 104
       /\ best_score' = ck.best_score                  \* line 105
       /\ model' = ck.model                            \* line 107
       /\ optimizer' = ck.optimizer                    \* line 108
       /\ epochs_count' = ck.epochs_count              \* line 109
       /\ train_losses' = ck.train_losses              \* line 110
       /\ train_accuracy' = ck.train_accuracy          \* line 111
       /\ valid_losses' = ck.valid_losses              \* line 112
       \* lines 113-114 bind valid_accuracy and valid_auc; line 116 rebinds
       \* valid_accuracy, and neither name is read by the loop
       /\ train_accuracies' = <<>>                     \* line 96, never rebound
       /\ valid_accuracies' = <<>>                     \* line 98, never rebound
       /\ epoch' = ResumeEpoch(ck) - 1                 \* iterator before start_epoch
  /\ sched_steps' = 0 /\ sched_metric' = -1
  /\ \E o \in ValidOutcomes(0) : epoch_loss' = 0 /\ epoch_accuracy' = 0
  /\ patience_counter' = 0
  /\ pc' = "for"
  /\ steps' = <<>> /\ run_accs' = <<>>
  /\ saved_now' = FALSE /\ n_saves' = 0 /\ n_test' = 0 /\ n_epochs' = 0 /\ stopped' = FALSE
  /\ UNCHANGED <<fileVars, load_pred, all_prob>>

\* lines 123-124: the loop takes its next epoch
ForNext ==
  /\ pc = "for"
  /\ RangeHasNext(epoch, epochs)
  /\ epoch' = epoch + 1
  /\ epochs_count' = Append(epochs_count, epoch + 1)
  /\ pc' = "train"
  /\ n_epochs' = n_epochs + 1
  /\ saved_now' = FALSE
  /\ UNCHANGED <<argVars, best_score, start_epoch, train_losses, train_accuracies,
                 valid_losses, valid_accuracies, train_accuracy, epoch_loss,
                 epoch_accuracy, patience_counter, model, optimizer, sched_steps,
                 sched_metric, fileVars, load_pred, all_prob, steps, run_accs, n_saves,
                 n_test, stopped>>

\* line 123: the range is exhausted and the function returns
ForExhausted ==
  /\ pc = "for"
  /\ ~RangeHasNext(epoch, epochs)
  /\ pc' = "done"
  /\ UNCHANGED <<argVars, best_score, start_epoch, epoch, listVars, train_accuracy,
                 epoch_loss, epoch_accuracy, patience_counter, model, optimizer,
                 sched_steps, sched_metric, fileVars, load_pred, all_prob, steps,
                 histVars>>

\* lines 127-129: one training pass
Train ==
  /\ pc = "train"
  /\ \E o \in TrainOutcomes(epoch) :
       /\ epoch_loss' = o.loss
       /\ epoch_accuracy' = o.accuracy
       /\ train_losses' = Append(train_losses, o.loss)
       /\ train_accuracies' = Append(train_accuracies, o.accuracy)
  /\ model' = model + 1
  /\ optimizer' = optimizer + 1
  /\ pc' = "validate"
  /\ steps' = Append(steps, "train")
  /\ UNCHANGED <<argVars, best_score, start_epoch, epoch, epochs_count, valid_losses,
                 valid_accuracies, train_accuracy, patience_counter, sched_steps,
                 sched_metric, fileVars, load_pred, all_prob, histVars>>

\* lines 133-135: one validation pass
Validate ==
  /\ pc = "validate"
  /\ \E o \in ValidOutcomes(epoch) :
       /\ epoch_loss' = o.loss
       /\ epoch_accuracy' = o.accuracy
       /\ valid_losses' = Append(valid_losses, o.loss)
       /\ valid_accuracies' = Append(valid_accuracies, o.accuracy)
       /\ run_accs' = Append(run_accs, o.accuracy)
  /\ pc' = "scheduler"
  /\ steps' = Append(steps, "validate")
  /\ UNCHANGED <<argVars, best_score, start_epoch, epoch, epochs_count, train_losses,
                 train_accuracies, train_accuracy, patience_counter, model, optimizer,
                 sched_steps, sched_metric, fileVars, load_pred, all_prob, saved_now,
                 n_saves, n_test, n_epochs, stopped>>

\* line 140: scheduler.step(epoch_accuracy)
SchedulerStep ==
  /\ pc = "scheduler"
  /\ sched_steps' = sched_steps + 1
  /\ sched_metric' = SchedulerMetric(epoch_loss, epoch_accuracy)
  /\ pc' = "early_stopping"
  /\ steps' = Append(steps, "scheduler")
  /\ UNCHANGED <<argVars, best_score, start_epoch, epoch, listVars, train_accuracy,
                 epoch_loss, epoch_accuracy, patience_counter, model, optimizer,
                 fileVars, load_pred, all_prob, histVars>>

\* lines 144-145: the epoch is below the best score
NoImprove ==
  /\ pc = "early_stopping"
  /\ ~Improves(epoch_accuracy, best_score)
  /\ patience_counter' = patience_counter + 1
  /\ pc' = "patience_check"
  /\ steps' = Append(steps, "decide")
  /\ UNCHANGED <<argVars, best_score, start_epoch, epoch, listVars, train_accuracy,
                 epoch_loss, epoch_accuracy, model, optimizer, sched_steps, sched_metric,
                 fileVars, load_pred, all_prob, run_accs, saved_now, n_saves, n_test, n_epochs,
                 stopped>>

\* lines 146-172: the epoch reaches the best score: save, test pass, export
ImproveWith(outcomes) ==
  /\ pc = "early_stopping"
  /\ Improves(epoch_accuracy, best_score)
  /\ best_score' = epoch_accuracy
  /\ patience_counter' = ResetCounter(patience_counter)
  /\ IF SaveWanted(if_save_model)
       THEN /\ disk' = <<CheckpointRecord(epoch, model, optimizer, epoch_accuracy,
                                          epochs_count, train_losses, train_accuracies,
                                          valid_losses, valid_accuracies)>>
            /\ disk_saver' = <<[epoch |-> epoch, best_score |-> epoch_accuracy]>>
            /\ saved_now' = TRUE
            /\ n_saves' = n_saves + 1
       ELSE UNCHANGED <<disk, disk_saver, saved_now, n_saves>>
  /\ \E probs \in outcomes :
       /\ all_prob' = probs
       /\ pred_file' = TestPrediction(probs)
  /\ n_test' = n_test + 1
  /\ pc' = "patience_check"
  /\ steps' = Append(steps, "decide")
  /\ UNCHANGED <<argVars, start_epoch, epoch, listVars, train_accuracy, epoch_loss,
                 epoch_accuracy, model, optimizer, sched_steps, sched_metric, load_pred,
                 run_accs, n_epochs, stopped>>

Improve == ImproveWith(TestOutcomes)

\* lines 174-176: patience is used up, break
Break ==
  /\ pc = "patience_check"
  /\ StopNow(patience_counter, patience)
  /\ stopped' = TRUE
  /\ pc' = "done"
  /\ steps' = Append(steps, "stop_check")
  /\ UNCHANGED <<argVars, best_score, start_epoch, epoch, listVars, train_accuracy,
                 epoch_loss, epoch_accuracy, patience_counter, model, optimizer,
                 sched_steps, sched_metric, fileVars, load_pred, all_prob, run_accs,
                 saved_now, n_saves, n_test, n_epochs>>

\* line 174 is false: back to the loop head
Continue ==
  /\ pc = "patience_check"
  /\ ~StopNow(patience_counter, patience)
  /\ pc' = "for"
  /\ steps' = Append(steps, "stop_check")
  /\ UNCHANGED <<argVars, best_score, start_epoch, epoch, listVars, train_accuracy,
                 epoch_loss, epoch_accuracy, patience_counter, model, optimizer,
                 sched_steps, sched_metric, fileVars, load_pred, all_prob, histVars>>

\* the function returns: its locals are gone, the files stay
Return ==
  /\ pc = "done"
  /\ pc' = "idle"
  /\ epochs' = 0 /\ patience' = 0 /\ if_save_model' = FALSE /\ checkpoint' = <<>>
  /\ best_score' = 0 /\ start_epoch' = 1 /\ epoch' = 0
  /\ epochs_count' = <<>> /\ train_losses' = <<>> /\ train_accuracies' = <<>>
  /\ valid_losses' = <<>> /\ valid_accuracies' = <<>> /\ train_accuracy' = <<>>
  /\ epoch_loss' = 0 /\ epoch_accuracy' = 0
  /\ patience_counter' = 0
  /\ model' = 0 /\ optimizer' = 0
  /\ sched_steps' = 0 /\ sched_metric' = -1
  /\ steps' = <<>> /\ run_accs' = <<>>
  /\ saved_now' = FALSE /\ n_saves' = 0 /\ n_test' = 0 /\ n_epochs' = 0 /\ stopped' = FALSE
  /\ all_prob' = <<>>
  /\ UNCHANGED <<fileVars, load_pred>>

\* ----------------------------------------------------------- model_load_test
\* lines 191-220: load best.pth.tar, one test pass, export the predictions
\* (torch.load raises when the file is missing and nothing is written)
LoadTestWith(outcomes) ==
  /\ pc = "idle"
  /\ CheckpointFound(disk)
  /\ \E probs \in outcomes : load_pred' = TestPrediction(probs)
  /\ all_prob' = <<>>                     \* a local, gone on return
  /\ UNCHANGED <<pc, argVars, best_score, start_epoch, epoch, listVars, train_accuracy,
                 epoch_loss, epoch_accuracy, patience_counter, model, optimizer,
                 sched_steps, sched_metric, disk, disk_saver, pred_file,
                 steps, histVars>>

LoadTest == LoadTestWith(TestOutcomes)

RunStep ==
  \/ ForNext \/ ForExhausted \/ Train \/ Validate \/ SchedulerStep
  \/ NoImprove \/ Improve \/ Break \/ Continue

\* calls of the training driver
NextTrain ==
  \/ StartFresh
  \/ StartResume
  \/ ForNext
  \/ ForExhausted
  \/ Train
  \/ Validate
  \/ SchedulerStep
  \/ NoImprove
  \/ Improve
  \/ Break
  \/ Continue
  \/ Return

\* calls of either driver, one at a time
Next ==
  \/ NextTrain
  \/ LoadTest

Spec == Init /\ [][Next]_vars

\* the training driver alone; its single control thread keeps running a
\* started call until it returns
FairSpec == Init /\ [][NextTrain]_vars /\ WF_vars(RunStep)

\* ------------------------------------------------ prediction export, widely
\* The export of both drivers over every table of up to MaxRows rows: a fresh
\* one-epoch call stands at line 144 of its first epoch; model_load_test runs
\* after the call has returned.
ImproveWide == ImproveWith(ProbRows)

LoadTestWide == LoadTestWith(ProbRows)

InitPredict ==
  /\ pc = "early_stopping"
  /\ epochs = 1 /\ patience \in {0, 1} /\ if_save_model = TRUE /\ checkpoint = <<>>
  /\ best_score = 0 /\ start_epoch = 1 /\ epoch = 1
  /\ \E t \in TrainOutcomes(1) : \E v \in ValidOutcomes(1) :
       /\ epochs_count = <<1>>
       /\ train_losses = <<t.loss>> /\ train_accuracies = <<t.accuracy>>
       /\ valid_losses = <<v.loss>> /\ valid_accuracies = <<v.accuracy>>
       /\ epoch_loss = v.loss /\ epoch_accuracy = v.accuracy
       /\ sched_metric = v.accuracy
       /\ run_accs = <<v.accuracy>>
  /\ train_accuracy = <<>>
  /\ patience_counter = 0
  /\ model = 1 /\ optimizer = 1
  /\ sched_steps = 1
  /\ disk = <<>> /\ all_prob = <<>> /\ pred_file = <<>> /\ load_pred = <<>>
  /\ steps = <<"train", "validate", "scheduler">>
  /\ disk_saver = <<>>
  /\ saved_now = FALSE /\ n_saves = 0 /\ n_test = 0 /\ n_epochs = 1 /\ stopped = FALSE

NextPredict ==
  \/ ImproveWide
  \/ Break
  \/ Continue
  \/ ForExhausted
  \/ Return
  \/ LoadTestWide

SpecPredict == InitPredict /\ [][NextPredict]_vars

\* --------------------------------------------------------------- vocabulary
Resumed == checkpoint # <<>>

RECURSIVE MaxOf(_)
MaxOf(s) == IF s = <<>> THEN 0
            ELSE LET m == MaxOf(Tail(s)) IN IF Head(s) >= m THEN Head(s) ELSE m

Front(s) == SubSeq(s, 1, Len(s) - 1)

LastN(s, n) == SubSeq(s, Len(s) - n + 1, Len(s))

\* best_score on entry to the loop
EntryBest == IF Resumed THEN checkpoint[1].best_score ELSE 0

\* the i-th epoch of this run was strictly below the best score seen before it
FailedEpoch(i) ==
  LET before == SubSeq(run_accs, 1, i - 1)
      best   == IF MaxOf(before) >= EntryBest THEN MaxOf(before) ELSE EntryBest
  IN  run_accs[i] < best

\* number of consecutive most recent epochs that failed
RECURSIVE FailsEndingAt(_)
FailsEndingAt(i) ==
  IF i = 0 THEN 0
  ELSE IF FailedEpoch(i) THEN 1 + FailsEndingAt(i - 1) ELSE 0

TrailingFails == FailsEndingAt(Len(run_accs))

EpochOrder == <<"train", "validate", "scheduler", "decide", "stop_check">>

RECURSIVE Repeat(_, _)
Repeat(s, n) == IF n = 0 THEN <<>> ELSE s \o Repeat(s, n - 1)

\* how many steps of its epoch the control thread has taken at each position
StepsTaken(p) ==
  CASE p = "train" -> 0
    [] p = "validate" -> 1
    [] p = "scheduler" -> 2
    [] p = "early_stopping" -> 3
    [] p = "patience_check" -> 4
    [] OTHER -> 5

\* ------------------------------------------------------------------- claims

\* C1 (as stated): at every epoch a checkpoint is written exactly when the
\* epoch's validation accuracy is >= that of every previous epoch (those of
\* this run and, in a resumed run, the best of those behind its checkpoint),
\* in every configuration.
C1_SavedIffBestAnyConfig ==
  pc = "patience_check" =>
    (saved_now <=> /\ \A i \in 1..Len(Front(run_accs)) : run_accs[i] <= epoch_accuracy
                   /\ EntryBest <= epoch_accuracy)

\* C1 (amended): with if_save_model true a checkpoint is written at an epoch
\* exactly when its validation accuracy is >= that of every previous epoch of
\* the run and, in a resumed run, >= the best score of the checkpoint it
\* resumed from; with if_save_model false none is written.
C1_SavedIffBestWhenSaving ==
  pc = "patience_check" =>
    (saved_now <=>
       /\ if_save_model
       /\ \A i \in 1..Len(Front(run_accs)) : run_accs[i] <= epoch_accuracy
       /\ EntryBest <= epoch_accuracy)

\* a resumed run writes a checkpoint on an epoch that ties the earlier best
C1_Witness ==
  /\ pc = "patience_check" /\ saved_now /\ Resumed
  /\ n_epochs >= 2
  /\ epoch_accuracy = checkpoint[1].best_score

\* C2: best_score never decreases during a run, and every checkpoint record a
\* run writes has a best_score >= that of the record it replaces, when that
\* record is the one the run resumed from or one it wrote itself.
C2_BestScoreMonotone ==
  [][ /\ (pc # "idle" /\ pc' # "idle") => best_score' >= best_score
      /\ (pc = "early_stopping" /\ saved_now' /\ (Resumed \/ n_saves > 0))
           => disk'[1].best_score >= disk[1].best_score ]_vars

\* a resumed run has overwritten the checkpoint it started from with a higher score
C2_Witness ==
  /\ pc = "patience_check" /\ saved_now /\ Resumed
  /\ disk[1].best_score > checkpoint[1].best_score

\* C3: the loop is left by break exactly when the number of consecutive most
\* recent epochs strictly below best_score has reached patience, never earlier;
\* the counter the code keeps is that number.
C3_StopsExactlyAtPatience ==
  /\ (pc \in {"patience_check", "for", "done"} /\ n_epochs > 0)
       => patience_counter = TrailingFails
  /\ (pc = "done" /\ stopped)
       => (TrailingFails >= patience /\ (patience >= 1 => TrailingFails = patience))
  /\ (pc \in {"for", "done"} /\ n_epochs > 0 /\ ~stopped) => TrailingFails < patience

\* an early stop with epochs still to run, after patience >= 1 failed epochs
C3_Witness ==
  pc = "done" /\ stopped /\ patience >= 1 /\ epoch < epochs /\ TrailingFails = patience

C5_ResumeRoundTrip ==
  Resumed =>
    /\ (pc = "for" /\ n_epochs = 0) =>
         /\ best_score = disk_saver[1].best_score
         /\ start_epoch = disk_saver[1].epoch + 1
    /\ (n_epochs = 1 /\ pc \in {"train", "validate", "scheduler", "early_stopping"}) =>
         epoch = disk_saver[1].epoch + 1

\* a resumed run is in its first epoch, with a best score above zero
C5_Witness ==
  Resumed /\ n_epochs = 1 /\ pc = "train" /\ best_score > 0 /\ epoch >= 2

\* C6 (as stated): the first checkpoint a resumed run writes holds, for each of
\* the five history arrays, the saved history followed by the new epochs' entries.
C6_HistoryRestored ==
  (Resumed /\ pc = "patience_check" /\ saved_now /\ n_saves = 1) =>
    LET old == checkpoint[1]
        new == disk[1]
    IN  /\ new.epochs_count = old.epochs_count \o LastN(epochs_count, n_epochs)
        /\ new.train_losses = old.train_losses \o LastN(train_losses, n_epochs)
        /\ new.train_accuracy = old.train_accuracy \o LastN(train_accuracies, n_epochs)
        /\ new.valid_losses = old.valid_losses \o LastN(valid_losses, n_epochs)
        /\ new.valid_accuracy = old.valid_accuracy \o run_accs

\* C7: an epoch strictly below best_score adds one to the patience counter and
\* leaves best_score, the checkpoint file and the prediction file alone, with
\* no test pass; an epoch >= best_score zeroes the counter, sets best_score to
\* its accuracy and rewrites the prediction file from a new test pass.
C7_EarlyStoppingFrame ==
  [][ pc = "early_stopping" =>
        IF epoch_accuracy < best_score
          THEN /\ patience_counter' = patience_counter + 1
               /\ UNCHANGED <<best_score, disk, pred_file, all_prob, n_test>>
          ELSE /\ patience_counter' = 0
               /\ best_score' = epoch_accuracy
               /\ n_test' = n_test + 1
               /\ pred_file' = TestPrediction(all_prob') ]_vars

\* a failed epoch has followed an epoch with a test pass, and a later epoch
\* has reached the best score again
C7_Witness ==
  /\ pc = "patience_check" /\ patience_counter = 0
  /\ n_test >= 2 /\ n_epochs >= 3 /\ \E i \in 1..Len(run_accs) : FailedEpoch(i)

\* C8: every epoch takes its steps once each in the order train, validate,
\* scheduler step (fed that epoch's validation accuracy), save-or-skip, stop
\* decision; an epoch starts only after the previous one's stop decision, and
\* nothing runs after the break.
C8_EpochStepOrder ==
  /\ pc \in {"train", "validate", "scheduler", "early_stopping", "patience_check"}
       => steps = Repeat(EpochOrder, n_epochs - 1) \o SubSeq(EpochOrder, 1, StepsTaken(pc))
  /\ pc \in {"for", "done"} => steps = Repeat(EpochOrder, n_epochs)
  /\ pc \in {"early_stopping", "patience_check", "for", "done"} =>
       /\ sched_steps = n_epochs
       /\ n_epochs > 0 => sched_metric = run_accs[Len(run_accs)]
  /\ pc \in {"train", "validate", "scheduler"} => sched_steps = n_epochs - 1
  /\ stopped => pc = "done"

\* a second epoch has finished its steps
C8_Witness ==
  pc = "for" /\ n_epochs = 2 /\ Len(steps) = 10 /\ sched_steps = 2

\* C9: a started call reaches done, having executed at most
\* epochs - start_epoch + 1 epochs, and none when the checkpoint's epoch is
\* already >= epochs.
C9_ReachesDone ==
  /\ [](/\ n_epochs <= (IF epochs - start_epoch + 1 >= 0 THEN epochs - start_epoch + 1 ELSE 0)
        /\ (Resumed /\ checkpoint[1].epoch >= epochs) => n_epochs = 0
        /\ start_epoch = (IF Resumed THEN checkpoint[1].epoch + 1 ELSE 1))
  /\ (pc \notin {"idle", "done"}) ~> (pc = "done")

\* a resumed call whose checkpoint is already at epochs is done without an epoch
C9_Witness ==
  /\ pc = "done" /\ Resumed /\ checkpoint[1].epoch >= epochs /\ n_epochs = 0 /\ epochs >= 1

\* C10: in a fresh run with if_save_model true and epochs >= 1 the first epoch
\* writes a checkpoint, and at done the file exists, records the maximum
\* validation accuracy of the epochs that ran and, as its epoch, the last
\* epoch that attained it.
C10_FreshRunLeavesBest ==
  (~Resumed /\ if_save_model /\ epochs >= 1) =>
    /\ (pc = "patience_check" /\ n_epochs = 1) => saved_now
    /\ pc = "done" =>
         /\ CheckpointFound(disk)
         /\ n_saves >= 1
         /\ disk[1].best_score = MaxOf(run_accs)
         /\ run_accs[disk[1].epoch] = MaxOf(run_accs)
         /\ \A i \in 1..Len(run_accs) : i > disk[1].epoch => run_accs[i] < MaxOf(run_accs)

\* a fresh saving run is done after a best epoch, a failed one and a tie
C10_Witness ==
  /\ pc = "done" /\ ~Resumed /\ if_save_model
  /\ Len(run_accs) = 3 /\ run_accs[2] < run_accs[1] /\ run_accs[3] = run_accs[1]
  /\ disk[1].epoch = 3

====
